---- MODULE Spec2Model ----
(***************************************************************************)
(* Negotiation orchestrator of backend/main.py (the /ws/negotiate          *)
(* websocket handler), with the agents of backend/agents.py and the         *)
(* registry of backend/suppliers.py.                                        *)
(*                                                                          *)
(* One session is modelled.  The handler ("driver") is sequential; in each  *)
(* round it fans out one asyncio task per supplier with asyncio.gather and  *)
(* waits for them.  A task suspends only while a text-generation call is    *)
(* outstanding, so a task step is the block of code between two such calls. *)
(* Texts produced by the text-generation service are opaque tokens that     *)
(* record who produced them, in which round, and whether they contain "$".  *)
(***************************************************************************)
EXTENDS Integers, Sequences, FiniteSets, TLC

\* ------------------------------------------------------------------------
\* Bounds and program constants
\* ------------------------------------------------------------------------

\* number of suppliers taking part in the modelled session (the code uses 3)
NumSuppliers == 2

\* how many text-generation calls of one session may fail
MaxFailures == 2

\* how many supplier replies of one session may lack a "$"
MaxPlainReplies == 1

NEGOTIATION_ROUNDS == 3

\* largest round count of the specification that varies NEGOTIATION_ROUNDS
MaxRounds == 4

\* longest comparison array given to the decision normalisation on its own
MaxItems == 3

\* the ids given to get_supplier on its own are -MaxId..MaxId
MaxId == 30

\* ------------------------------------------------------------------------
\* suppliers.py
\* ------------------------------------------------------------------------

\* quality_rating is kept in tenths, price_multiplier in hundredths
SUPPLIERS ==
    << [id |-> 1, name |-> "Supplier A", quality_rating |-> 40,
        base_lead_time_days |-> 45, price_multiplier |-> 85],
       [id |-> 2, name |-> "Supplier B", quality_rating |-> 47,
        base_lead_time_days |-> 25, price_multiplier |-> 105],
       [id |-> 3, name |-> "Supplier C", quality_rating |-> 40,
        base_lead_time_days |-> 15, price_multiplier |-> 120] >>

NoSupplier == [id |-> 0, name |-> "ValueError", quality_rating |-> 0,
               base_lead_time_days |-> 0, price_multiplier |-> 0]

\* variant of get_supplier: an unknown id falls back to the first entry
get_supplier_or_first(id) ==
    IF \E i \in DOMAIN SUPPLIERS : SUPPLIERS[i].id = id
    THEN LET i == CHOOSE j \in DOMAIN SUPPLIERS :
                     /\ SUPPLIERS[j].id = id
                     /\ \A m \in 1..(j - 1) : SUPPLIERS[m].id # id
         IN  SUPPLIERS[i]
    ELSE SUPPLIERS[1]

\* first registry entry with the given id; NoSupplier stands for ValueError
get_supplier(id) ==
    IF \E i \in DOMAIN SUPPLIERS : SUPPLIERS[i].id = id
    THEN LET i == CHOOSE j \in DOMAIN SUPPLIERS :
                     /\ SUPPLIERS[j].id = id
                     /\ \A m \in 1..(j - 1) : SUPPLIERS[m].id # id
         IN  SUPPLIERS[i]
    ELSE NoSupplier

\* suppliers = [get_supplier(i) for i in (1, 2, 3)]
SessionSuppliers == [i \in 1..NumSuppliers |-> get_supplier(i)]

\* supplier_agents keys
SupplierIds == {SessionSuppliers[i].id : i \in DOMAIN SessionSuppliers}

SupplierName(sid) == get_supplier(sid).name

\* ------------------------------------------------------------------------
\* Texts
\* ------------------------------------------------------------------------

Text(kind, sid, round, dollar, hint) ==
    [kind |-> kind, sid |-> sid, round |-> round, dollar |-> dollar, hint |-> hint]

\* the empty string
EmptyText == Text("empty", 0, 0, FALSE, <<>>)

BrandSystemPrompt == Text("brand_system", 0, 0, FALSE, <<>>)
SupplierSystemPrompt(sid) == Text("supplier_system", sid, 0, TRUE, <<>>)

\* variant of HasDollar: any reply counts, as `if reply` would
HasDollarAnyReply(text) == text.kind = "reply"

\* "$" in text
HasDollar(text) == text.dollar

Turn(role, content) == [role |-> role, content |-> content]

\* ------------------------------------------------------------------------
\* main.py: _peer_summary
\* ------------------------------------------------------------------------

\* variant of GetReply: the default is a placeholder quote, not ""
GetReplyDefaultQuoted(replies, sid) ==
    IF sid \in DOMAIN replies THEN replies[sid]
    ELSE [kind |-> "reply", sid |-> sid, round |-> 0, dollar |-> TRUE,
          hint |-> <<>>]

\* replies.get(sid, "")
GetReply(replies, sid) ==
    IF sid \in DOMAIN replies THEN replies[sid] ELSE EmptyText

\* variant of PeerLine: the line quotes the peer's reply
PeerLineQuoting(s, replies) ==
    [name    |-> s.name,
     quality |-> s.quality_rating,
     lead    |-> s.base_lead_time_days,
     mention |-> IF HasDollar(GetReply(replies, s.id))
                 THEN "has quoted" ELSE "has responded",
     quote   |-> GetReply(replies, s.id),
     posture |-> IF s.price_multiplier <= 100
                 THEN "competitive" ELSE "higher-priced"]

\* variant of PeerLine: price_multiplier < 1.0
PeerLineStrict(s, replies) ==
    [name    |-> s.name,
     quality |-> s.quality_rating,
     lead    |-> s.base_lead_time_days,
     mention |-> IF HasDollar(GetReply(replies, s.id))
                 THEN "has quoted" ELSE "has responded",
     posture |-> IF s.price_multiplier < 100
                 THEN "competitive" ELSE "higher-priced"]

\* lines 167-172: the line of one peer
PeerLine(s, replies) ==
    [name    |-> s.name,
     quality |-> s.quality_rating,
     lead    |-> s.base_lead_time_days,
     mention |-> IF HasDollar(GetReply(replies, s.id))
                 THEN "has quoted" ELSE "has responded",
     posture |-> IF s.price_multiplier <= 100
                 THEN "competitive" ELSE "higher-priced"]

\* variant of _peer_summary: nobody is left out
_peer_summary_all(exclude_supplier_id, suppliers, replies) ==
    [header |-> "Other suppliers in this negotiation:",
     lines  |-> [i \in DOMAIN suppliers |-> PeerLine(suppliers[i], replies)]]

\* the header line followed by one line per peer, in the order of suppliers
_peer_summary(exclude_supplier_id, suppliers, replies) ==
    LET IsPeer(s) == s.id # exclude_supplier_id
        peers == SelectSeq(suppliers, IsPeer)
    IN  [header |-> "Other suppliers in this negotiation:",
         lines  |-> [i \in DOMAIN peers |-> PeerLine(peers[i], replies)]]

\* ------------------------------------------------------------------------
\* agents.py: the threads
\* ------------------------------------------------------------------------

\* BrandAgent.__init__: one history per supplier, seeded with the system prompt
BrandAgentInit ==
    [sid \in SupplierIds |-> << Turn("system", BrandSystemPrompt) >>]

\* SupplierAgent.__init__ for every supplier of the session
SupplierAgentsInit ==
    [sid \in SupplierIds |-> << Turn("system", SupplierSystemPrompt(sid)) >>]

\* the instruction turn of generate_counter; hint is <<>> for no summary
\* and <<summary>> for a summary given as competitive context
Instruction(sid, hint) == Text("instruction", sid, 0, FALSE, hint)

\* variant of generate_counter_begin: the supplier's reply is not recorded
generate_counter_begin_no_reply(history, sid, supplier_response, hint) ==
    Append(history, Turn("user", Instruction(sid, hint)))

\* generate_counter up to the text-generation call: two appends
generate_counter_begin(history, sid, supplier_response, hint) ==
    history \o << Turn("assistant", supplier_response),
                  Turn("user", Instruction(sid, hint)) >>

\* variant of generate_counter_end: the reply is appended after the instruction
generate_counter_end_append(history, reply) ==
    Append(history, Turn("user", reply))

\* generate_counter after a successful call: history[-1] = reply
generate_counter_end(history, reply) ==
    [history EXCEPT ![Len(history)] = Turn("user", reply)]

\* variant of respond_begin: the brand's message is not recorded
respond_begin_skip(history, brand_message) == history

\* SupplierAgent.respond up to the call, and after a successful call
respond_begin(history, brand_message) ==
    Append(history, Turn("user", brand_message))

\* variant of respond_end: the reply takes the place of the last turn
respond_end_overwrite(history, reply) ==
    [history EXCEPT ![Len(history)] = Turn("assistant", reply)]

\* respond lines 90-92: the reply is appended as the assistant's turn
respond_end(history, reply) ==
    Append(history, Turn("assistant", reply))

\* the texts the text-generation service returns
RfqText(sid) == Text("rfq", sid, 1, FALSE, <<>>)
CounterText(sid, rn) == Text("counter", sid, rn, FALSE, <<>>)
ReplyText(sid, rn, dollar) == Text("reply", sid, rn, dollar, <<>>)

\* ------------------------------------------------------------------------
\* agents.py: make_decision
\* ------------------------------------------------------------------------

\* an item of the comparison array; the five assessment strings are
\* represented by overall_score
ComparisonItem(name, score) == [supplier_name |-> name, overall_score |-> score]

\* variant of ComparisonMap: only the overall score of an item is kept
ComparisonMapScoreOnly(comparison_list) ==
    LET names == {comparison_list[i].supplier_name : i \in DOMAIN comparison_list}
        LastOf(n) == CHOOSE i \in DOMAIN comparison_list :
                        /\ comparison_list[i].supplier_name = n
                        /\ \A j \in DOMAIN comparison_list :
                              comparison_list[j].supplier_name = n => j <= i
    IN  [n \in names |-> [overall_score |-> comparison_list[LastOf(n)].overall_score]]

\* {item["supplier_name"]: {k: v ... if k != "supplier_name"} for item in list}
\* a later item with the same name overwrites an earlier one
ComparisonMap(comparison_list) ==
    LET names == {comparison_list[i].supplier_name : i \in DOMAIN comparison_list}
        LastOf(n) == CHOOSE i \in DOMAIN comparison_list :
                        /\ comparison_list[i].supplier_name = n
                        /\ \A j \in DOMAIN comparison_list :
                              comparison_list[j].supplier_name = n => j <= i
    IN  [n \in names |->
           [k \in DOMAIN comparison_list[LastOf(n)] \ {"supplier_name"} |->
               comparison_list[LastOf(n)][k]]]

\* the NegotiationDecision built from the structured response
NormalizeDecision(data) ==
    [winner_supplier_id |-> data.winner_supplier_id,
     winner_name        |-> data.winner_name,
     reasoning          |-> data.reasoning,
     comparison         |-> ComparisonMap(data.comparison)]

NoDecision ==
    [winner_supplier_id |-> 0, winner_name |-> "", reasoning |-> "",
     comparison |-> <<>>]

\* the structured responses the decision call may return
ComparisonLists ==
    LET all == [i \in DOMAIN SessionSuppliers |-> SessionSuppliers[i].name]
    IN  { all,
          SubSeq(all, 1, Len(all) - 1),
          Append(SubSeq(all, 1, Len(all) - 1), all[1]),
          Append(all, "Supplier Z") }

DecisionResponses ==
    { [winner_supplier_id |-> w,
       winner_name        |-> SupplierName(w),
       reasoning          |-> "reasoning",
       comparison         |-> [i \in DOMAIN names |-> ComparisonItem(names[i], i)]] :
      w \in {1, 9}, names \in ComparisonLists }

\* ------------------------------------------------------------------------
\* Events, exceptions, first messages
\* ------------------------------------------------------------------------

Event(type, sid, role, round, content, decision) ==
    [type |-> type, supplier_id |-> sid, role |-> role, round |-> round,
     content |-> content, decision |-> decision]

\* variant of StatusEvent: every round marker announces round 1
StatusEventRoundOne(what, rn) ==
    Event("status", 0, "", IF what = "round" THEN 1 ELSE rn,
          Text(what, 0, IF what = "round" THEN 1 ELSE rn, FALSE, <<>>),
          NoDecision)

\* "init": agents initialised; "round": round start; "decision": decision start
StatusEvent(what, rn) ==
    Event("status", 0, "", rn, Text(what, 0, rn, FALSE, <<>>), NoDecision)

MessageEvent(sid, role, content, rn) ==
    Event("message", sid, role, rn, content, NoDecision)

DecisionEvent(decision) == Event("decision", 0, "", 0, EmptyText, decision)

DoneEvent == Event("done", 0, "", 0, EmptyText, NoDecision)

ErrorEvent(message) == Event("error", 0, "", 0, message, NoDecision)

\* an exception: its class and str(exc); sid is the supplier the text names
Exc(cls, what, sid) == [cls |-> cls, message |-> Text(what, sid, 0, FALSE, <<>>)]

NoExc == Exc("none", "", 0)

\* the exceptions a send on an unusable channel raises
SendExcs == { Exc("WebSocketDisconnect", "disconnect", 0),
              Exc("RuntimeError", "send failed", 0) }

\* the first inbound message: how json.loads fares, its type, its quantities
FirstMessage(json, type, quantities) ==
    [json |-> json, type |-> type, quantities |-> quantities]

FirstMessages ==
    { FirstMessage("invalid", "", ""),
      FirstMessage("not_object", "", ""),
      FirstMessage("object", "bogus", "valid"),
      FirstMessage("object", "missing", "valid"),
      FirstMessage("object", "start_negotiation", "missing"),
      FirstMessage("object", "start_negotiation", "not_a_map"),
      FirstMessage("object", "start_negotiation", "zero"),
      FirstMessage("object", "start_negotiation", "negative"),
      FirstMessage("object", "start_negotiation", "valid") }

\* NegotiationRequest(quantities=...): dict[str, int] accepts any integers
NegotiationRequestValid(quantities) ==
    quantities \in {"valid", "zero", "negative"}

\* what lines 43-45 raise for a first message (json.loads, payload.get),
\* NoExc if nothing
ParseExc(m) ==
    IF m.json = "invalid" THEN Exc("JSONDecodeError", "json", 0)
    ELSE IF m.json = "not_object" THEN Exc("AttributeError", "get", 0)
    ELSE NoExc

\* variant of IsStart: the type of the first message is not looked at
IsStartAny(m) == TRUE

\* line 45: payload.get("type") == "start_negotiation"
IsStart(m) == m.type = "start_negotiation"

\* what lines 49-52 raise (payload["quantities"], NegotiationRequest)
RequestExc(m) ==
    IF m.quantities = "missing" THEN Exc("KeyError", "quantities", 0)
    ELSE IF ~NegotiationRequestValid(m.quantities)
         THEN Exc("ValidationError", "quantities", 0)
    ELSE NoExc

\* line 46
ExpectedStart == Text("Expected start_negotiation message", 0, 0, FALSE, <<>>)

\* the text-generation calls of a session
Call(kind, sid, rn) == [kind |-> kind, sid |-> sid, round |-> rn]

DecisionCall == Call("make_decision", 0, 0)

\* ------------------------------------------------------------------------
\* State
\* ------------------------------------------------------------------------

VARIABLES
    pc,                      \* where the negotiate handler is
    round,                   \* round_num (0 before round 1)
    task,                    \* per supplier: where its task of this round is
    gatherExc,               \* the exception asyncio.gather hands to the handler
    events,                  \* the events the channel has accepted, in order
    chan,                    \* the websocket: "open", "lost" or "closed"
    conversation_histories,  \* BrandAgent.conversation_histories
    conversation_history,    \* per supplier: SupplierAgent.conversation_history
    latest_supplier_replies, \* latest_supplier_replies
    peer_summary,            \* per supplier: peer_summary of run_counter_round
    issued,                  \* how often each text-generation call was issued
    failedCalls,             \* the text-generation calls that failed
    failedSends,             \* sends attempted on a channel that is not open
    nrounds,                 \* the value of NEGOTIATION_ROUNDS in this session
    call_args,               \* a direct call of a helper: << >> or << arguments >>
    call_result              \* its result: << >> before the call, << value >> after

vars == << pc, round, task, gatherExc, events, chan, conversation_histories,
           conversation_history, latest_supplier_replies, peer_summary, issued,
           failedCalls, failedSends, nrounds, call_args, call_result >>

\* what no step of a session changes
fixedVars == << nrounds, call_args, call_result >>

\* the state of a session
sessionVars == << pc, round, task, gatherExc, events, chan,
                  conversation_histories, conversation_history,
                  latest_supplier_replies, peer_summary, issued, failedCalls,
                  failedSends >>

agentVars == << conversation_histories, conversation_history,
                latest_supplier_replies >>

\* the state after ws.accept(), before the first message
SessionInit ==
    /\ pc = "receive"
    /\ round = 0
    /\ task = [sid \in SupplierIds |-> "idle"]
    /\ gatherExc = NoExc
    /\ events = << >>
    /\ chan = "open"
    /\ conversation_histories = << >>
    /\ conversation_history = << >>
    /\ latest_supplier_replies = << >>
    /\ peer_summary = << >>
    /\ issued = << >>
    /\ failedCalls = {}
    /\ failedSends = 0

Init ==
    /\ SessionInit
    /\ nrounds = NEGOTIATION_ROUNDS
    /\ call_args = << >>
    /\ call_result = << >>

IssuedCount(call) == IF call \in DOMAIN issued THEN issued[call] ELSE 0

\* variant of Issue: a client that sends every request a second time
IssueWithRetry(calls) ==
    [c \in DOMAIN issued \cup calls |->
        IssuedCount(c) + (IF c \in calls THEN 2 ELSE 0)]

\* issued, after each call of the set has been issued once more
Issue(calls) ==
    [c \in DOMAIN issued \cup calls |->
        IssuedCount(c) + (IF c \in calls THEN 1 ELSE 0)]

\* supplier replies so far that contain no "$"
PlainReplies ==
    { <<sid, i>> \in SupplierIds \X (1..(2 * nrounds + 1)) :
        /\ sid \in DOMAIN conversation_history
        /\ i \in DOMAIN conversation_history[sid]
        /\ conversation_history[sid][i].role = "assistant"
        /\ ~HasDollar(conversation_history[sid][i].content) }

MayFail == Cardinality(failedCalls) < MaxFailures

\* ------------------------------------------------------------------------
\* main.py: negotiate
\* ------------------------------------------------------------------------

\* variant of HandlerExcept: every exception is swallowed like a disconnect
HandlerExceptSilent(exc, attempted) ==
    /\ pc' = "returned"
    /\ events' = events
    /\ failedSends' = failedSends + attempted

\* variant of HandlerExcept: a done event is sent on the way out as well
HandlerExceptThenDone(exc, attempted) ==
    /\ pc' = "returned"
    /\ IF exc.cls # "WebSocketDisconnect" /\ chan = "open"
       THEN /\ events' = events \o << ErrorEvent(exc.message), DoneEvent >>
            /\ failedSends' = failedSends + attempted
       ELSE /\ events' = events
            /\ failedSends' = failedSends + attempted + 1

\* variant of HandlerExcept: a failed error send is tried once more
HandlerExceptRetry(exc, attempted) ==
    /\ pc' = "returned"
    /\ IF exc.cls = "WebSocketDisconnect"
       THEN /\ events' = events
            /\ failedSends' = failedSends + attempted
       ELSE IF chan = "open"
       THEN /\ events' = Append(events, ErrorEvent(exc.message))
            /\ failedSends' = failedSends + attempted
       ELSE /\ events' = events
            /\ failedSends' = failedSends + attempted + 2

\* lines 145-151: the handler's except clauses, then the handler returns.
\* attempted is the number of failed sends the raising code made itself.
HandlerExcept(exc, attempted) ==
    /\ pc' = "returned"
    /\ IF exc.cls = "WebSocketDisconnect"
       THEN /\ events' = events
            /\ failedSends' = failedSends + attempted
       ELSE IF chan = "open"
       THEN /\ events' = Append(events, ErrorEvent(exc.message))
            /\ failedSends' = failedSends + attempted
       ELSE /\ events' = events
            /\ failedSends' = failedSends + attempted + 1

\* a ws.send_json of the handler on a channel that is not open raises
HandlerSendFails ==
    \E e \in SendExcs : HandlerExcept(e, 1)

\* lines 57-100: bootstrap, two status events, round 1 fanned out; every
\* run_round1 task runs up to its generate_rfq call
Bootstrap ==
    /\ conversation_histories' = BrandAgentInit
    /\ conversation_history' = SupplierAgentsInit
    /\ latest_supplier_replies' = << >>
    /\ events' = events \o << StatusEvent("init", 0), StatusEvent("round", 1) >>
    /\ round' = 1
    /\ task' = [sid \in SupplierIds |-> "gen"]
    /\ issued' = Issue({Call("generate_rfq", sid, 1) : sid \in SupplierIds})
    /\ pc' = "gather"
    /\ UNCHANGED << gatherExc, chan, failedCalls, failedSends >>

\* lines 42-100: the first inbound message
Receive(m) ==
    /\ pc = "receive"
    /\ IF chan # "open"
       THEN /\ HandlerExcept(Exc("WebSocketDisconnect", "disconnect", 0), 0)
            /\ UNCHANGED << round, task, gatherExc, chan, agentVars, issued,
                            failedCalls >>
       ELSE IF ParseExc(m) # NoExc
       THEN /\ HandlerExcept(ParseExc(m), 0)
            /\ UNCHANGED << round, task, gatherExc, chan, agentVars, issued,
                            failedCalls >>
       ELSE IF ~IsStart(m)
       THEN /\ events' = Append(events, ErrorEvent(ExpectedStart))
            /\ pc' = "returned"
            /\ UNCHANGED << round, task, gatherExc, chan, agentVars, issued,
                            failedCalls, failedSends >>
       ELSE IF RequestExc(m) # NoExc
       THEN /\ HandlerExcept(RequestExc(m), 0)
            /\ UNCHANGED << round, task, gatherExc, chan, agentVars, issued,
                            failedCalls >>
       ELSE Bootstrap
    /\ UNCHANGED << peer_summary, fixedVars >>

\* asyncio.gather without return_exceptions: the first exception raised by a
\* task is handed to the awaiting handler; later ones are dropped, and no
\* task is cancelled
Propagate(exc) ==
    IF pc = "gather" /\ gatherExc = NoExc THEN exc ELSE gatherExc

\* variant of TaskRaises: the agent takes back the turns it appended for the
\* call that failed
TaskRaisesRollback(sid, call, exc) ==
    /\ MayFail
    /\ task' = [task EXCEPT ![sid] = "failed"]
    /\ failedCalls' = failedCalls \cup {call}
    /\ gatherExc' = Propagate(exc)
    /\ conversation_history' =
         IF call.kind = "respond"
         THEN [conversation_history EXCEPT
                 ![sid] = SubSeq(@, 1, Len(@) - 1)]
         ELSE conversation_history
    /\ conversation_histories' =
         IF call.kind = "generate_counter"
         THEN [conversation_histories EXCEPT
                 ![sid] = SubSeq(@, 1, Len(@) - 2)]
         ELSE conversation_histories
    /\ UNCHANGED << pc, round, events, chan, latest_supplier_replies, issued,
                    failedSends >>

\* a task's text-generation call fails: the agent raises RuntimeError
TaskRaises(sid, call, exc) ==
    /\ MayFail
    /\ task' = [task EXCEPT ![sid] = "failed"]
    /\ failedCalls' = failedCalls \cup {call}
    /\ gatherExc' = Propagate(exc)
    /\ UNCHANGED << pc, round, events, chan, agentVars, issued, failedSends >>

\* send_msg (lines 75-82) on a channel that is not open raises in the task
TaskSendFails(sid) ==
    /\ task' = [task EXCEPT ![sid] = "failed"]
    /\ failedSends' = failedSends + 1
    /\ \E e \in SendExcs : gatherExc' = Propagate(e)

\* variant of send_msg: every message is labelled as the brand's
send_msg_one_role(stream, supplier_id, role, content, round_num) ==
    Append(stream, MessageEvent(supplier_id, "brand", content, round_num))

\* variant of send_msg: the two roles are exchanged
send_msg_swapped(stream, supplier_id, role, content, round_num) ==
    Append(stream, MessageEvent(supplier_id,
                                IF role = "brand" THEN "supplier" ELSE "brand",
                                content, round_num))

\* send_msg (lines 75-82) on an open channel: the stream with the event added
send_msg(stream, supplier_id, role, content, round_num) ==
    Append(stream, MessageEvent(supplier_id, role, content, round_num))

\* variant of WriteThread: every supplier id is bound to one and the same list
WriteThreadShared(histories, sid, thread) ==
    [c \in DOMAIN histories |-> thread]

\* agents.py line 224: history = self.conversation_histories[supplier_id];
\* what is done to history is done to the list of that id only
WriteThread(histories, sid, thread) ==
    [histories EXCEPT ![sid] = thread]

\* variant of RecordReply: the reply is recorded for every supplier
RecordReplyForAll(replies, sid, reply) ==
    [s \in SupplierIds |-> reply]

\* variant of RecordReply: a reply already recorded is kept
RecordReplyKeepFirst(replies, sid, reply) ==
    [s \in DOMAIN replies \cup {sid} |->
        IF s \in DOMAIN replies THEN replies[s] ELSE reply]

\* main.py lines 97 and 123: latest_supplier_replies[supplier_id] = reply
RecordReply(replies, sid, reply) ==
    [s \in DOMAIN replies \cup {sid} |->
        IF s = sid THEN reply ELSE replies[s]]

\* the brand's text for this round: the RFQ in round 1, a counter afterwards
BrandText(sid, rn) == IF rn = 1 THEN RfqText(sid) ELSE CounterText(sid, rn)

BrandCall(sid, rn) ==
    Call(IF rn = 1 THEN "generate_rfq" ELSE "generate_counter", sid, rn)

\* run_round1 lines 94-96 / run_counter_round lines 115-122: the brand's
\* call returns; the message event is sent and respond runs up to its call
BrandReturns(sid) ==
    /\ task[sid] = "gen"
    /\ conversation_histories' =
         IF round = 1 THEN conversation_histories
         ELSE WriteThread(conversation_histories, sid,
                          generate_counter_end(conversation_histories[sid],
                                               BrandText(sid, round)))
    /\ IF chan = "open"
       THEN /\ events' = send_msg(events, sid, "brand", BrandText(sid, round),
                                  round)
            /\ conversation_history' =
                 [conversation_history EXCEPT
                    ![sid] = respond_begin(@, BrandText(sid, round))]
            /\ issued' = Issue({Call("respond", sid, round)})
            /\ task' = [task EXCEPT ![sid] = "resp"]
            /\ UNCHANGED << gatherExc, failedSends >>
       ELSE /\ TaskSendFails(sid)
            /\ UNCHANGED << events, conversation_history, issued >>
    /\ UNCHANGED << pc, round, chan, latest_supplier_replies, failedCalls >>
    /\ UNCHANGED << peer_summary, fixedVars >>

\* generate_rfq lines 213-214 / generate_counter lines 251-252
BrandFails(sid) ==
    /\ task[sid] = "gen"
    /\ TaskRaises(sid, BrandCall(sid, round),
                  Exc("RuntimeError",
                      IF round = 1 THEN "Brand RFQ generation failed"
                      ELSE "Brand counter-proposal generation failed", 0))
    /\ UNCHANGED << peer_summary, fixedVars >>

\* run_round1 lines 96-98 / run_counter_round lines 122-124: the supplier's
\* call returns; the reply is recorded and its message event is sent
SupplierReturns(sid, dollar) ==
    /\ task[sid] = "resp"
    /\ dollar \/ Cardinality(PlainReplies) < MaxPlainReplies
    /\ LET reply == ReplyText(sid, round, dollar)
       IN  /\ conversation_history' =
                [conversation_history EXCEPT ![sid] = respond_end(@, reply)]
           /\ latest_supplier_replies' =
                RecordReply(latest_supplier_replies, sid, reply)
           /\ IF chan = "open"
              THEN /\ events' = send_msg(events, sid, "supplier", reply, round)
                   /\ task' = [task EXCEPT ![sid] = "done"]
                   /\ UNCHANGED << gatherExc, failedSends >>
              ELSE /\ TaskSendFails(sid)
                   /\ UNCHANGED events
    /\ UNCHANGED << pc, round, chan, conversation_histories, issued, failedCalls >>
    /\ UNCHANGED << peer_summary, fixedVars >>

\* respond lines 87-88
SupplierFails(sid) ==
    /\ task[sid] = "resp"
    /\ TaskRaises(sid, Call("respond", sid, round),
                  Exc("RuntimeError", "LLM call failed", sid))
    /\ UNCHANGED << peer_summary, fixedVars >>

\* every task of the round has returned normally
RoundComplete == \A sid \in SupplierIds : task[sid] = "done"

\* variant of GatherResult: gather returns once the first task has returned
GatherResultFirstDone ==
    IF gatherExc # NoExc THEN "raise"
    ELSE IF \E sid \in SupplierIds : task[sid] = "done" THEN "return"
    ELSE "pending"

\* variant of GatherResult: gather(return_exceptions=True), which never raises
GatherResultSwallow ==
    IF \A sid \in SupplierIds : task[sid] \in {"done", "failed"} THEN "return"
    ELSE "pending"

\* variant of GatherResult: the awaiting handler is never woken
GatherResultNever == "pending"

\* what `await asyncio.gather(...)` does next (lines 100 and 126): it raises
\* the first exception of a task as soon as there is one, returns once every
\* task has returned, and is pending otherwise
GatherResult ==
    IF gatherExc # NoExc THEN "raise"
    ELSE IF RoundComplete THEN "return"
    ELSE "pending"

\* variant of MoreRounds: range(2, NEGOTIATION_ROUNDS)
MoreRoundsShort(rn) == rn < nrounds - 1

\* line 105: range(2, NEGOTIATION_ROUNDS + 1) has a round after rn
MoreRounds(rn) == rn < nrounds

\* variant of Disclose: the final round only
DiscloseFinalOnly(rn) == rn = nrounds /\ nrounds > 2

\* variant of Disclose: every counter round
DiscloseEveryCounter(rn) == rn >= 2

\* line 118: all_quotes_summary=peer_summary if _rn > 2 else None
Disclose(rn) == rn > 2

\* variant of CounterBegin: the summary is built from an empty replies map
CounterBeginNoOffers(sid, rn) ==
    LET supplier_reply == GetReply(latest_supplier_replies, sid)
        summary == _peer_summary(sid, SessionSuppliers, << >>)
    IN  [peer_summary |-> summary,
         history |-> generate_counter_begin(
                        conversation_histories[sid], sid, supplier_reply,
                        IF Disclose(rn) THEN << summary >> ELSE << >>)]

\* run_counter_round lines 112-119 for one supplier, up to the call inside
\* generate_counter
CounterBegin(sid, rn) ==
    LET supplier_reply == GetReply(latest_supplier_replies, sid)
        summary == _peer_summary(sid, SessionSuppliers, latest_supplier_replies)
    IN  [peer_summary |-> summary,
         history |-> generate_counter_begin(
                        conversation_histories[sid], sid, supplier_reply,
                        IF Disclose(rn) THEN << summary >> ELSE << >>)]

\* lines 105-126: gather returned, the next round's status event is sent and
\* the round is fanned out; every task runs up to its generate_counter call
NextRound ==
    /\ pc = "gather"
    /\ GatherResult = "return"
    /\ MoreRounds(round)
    /\ IF chan = "open"
       THEN /\ events' = Append(events, StatusEvent("round", round + 1))
            /\ round' = round + 1
            /\ conversation_histories' =
                 [sid \in SupplierIds |-> CounterBegin(sid, round + 1).history]
            /\ peer_summary' =
                 [sid \in SupplierIds |->
                     CounterBegin(sid, round + 1).peer_summary]
            /\ issued' = Issue({Call("generate_counter", sid, round + 1) :
                                sid \in SupplierIds})
            /\ task' = [sid \in SupplierIds |-> "gen"]
            /\ UNCHANGED << pc, failedSends >>
       ELSE /\ HandlerSendFails
            /\ UNCHANGED << round, conversation_histories, peer_summary,
                            issued, task >>
    /\ UNCHANGED << gatherExc, chan, conversation_history,
                    latest_supplier_replies, failedCalls >>
    /\ UNCHANGED fixedVars

\* lines 131-133: after the last round, the status event and make_decision
\* up to its call
Decide ==
    /\ pc = "gather"
    /\ GatherResult = "return"
    /\ ~MoreRounds(round)
    /\ IF chan = "open"
       THEN /\ events' = Append(events, StatusEvent("decision", 0))
            /\ issued' = Issue({DecisionCall})
            /\ pc' = "decide"
            /\ UNCHANGED failedSends
       ELSE /\ HandlerSendFails
            /\ UNCHANGED issued
    /\ UNCHANGED << round, task, gatherExc, chan, agentVars, failedCalls >>
    /\ UNCHANGED << peer_summary, fixedVars >>

\* variant of FinalEvents: done is sent before the decision
FinalEventsSwapped(decision) == << DoneEvent, DecisionEvent(decision) >>

\* lines 135-143: the decision event, then the done event
FinalEvents(decision) == << DecisionEvent(decision), DoneEvent >>

\* lines 133-143: the decision call returns; decision and done are sent
DecisionReturns(data) ==
    /\ pc = "decide"
    /\ IF chan = "open"
       THEN /\ events' = events \o FinalEvents(NormalizeDecision(data))
            /\ pc' = "returned"
            /\ UNCHANGED failedSends
       ELSE HandlerSendFails
    /\ UNCHANGED << round, task, gatherExc, chan, agentVars, issued, failedCalls >>
    /\ UNCHANGED << peer_summary, fixedVars >>

\* make_decision lines 300-301, caught at lines 147-151
DecisionFails ==
    /\ pc = "decide"
    /\ MayFail
    /\ failedCalls' = failedCalls \cup {DecisionCall}
    /\ HandlerExcept(Exc("RuntimeError", "Brand decision generation failed", 0), 0)
    /\ UNCHANGED << round, task, gatherExc, chan, agentVars, issued >>
    /\ UNCHANGED << peer_summary, fixedVars >>

\* lines 100/126 and 145-151: gather raises the first exception of a task
GatherRaises ==
    /\ pc = "gather"
    /\ GatherResult = "raise"
    /\ HandlerExcept(gatherExc, 0)
    /\ UNCHANGED << round, task, gatherExc, chan, agentVars, issued, failedCalls >>
    /\ UNCHANGED << peer_summary, fixedVars >>

\* the client goes away while the handler runs
ClientDisconnect ==
    /\ pc # "returned"
    /\ chan = "open"
    /\ chan' = "lost"
    /\ UNCHANGED << pc, round, task, gatherExc, events, agentVars, issued,
                    failedCalls, failedSends >>
    /\ UNCHANGED << peer_summary, fixedVars >>

\* the server closes the websocket some time after the handler returned
ServerClose ==
    /\ pc = "returned"
    /\ chan = "open"
    /\ chan' = "closed"
    /\ UNCHANGED << pc, round, task, gatherExc, events, agentVars, issued,
                    failedCalls, failedSends >>
    /\ UNCHANGED << peer_summary, fixedVars >>

Next ==
    \/ \E m \in FirstMessages : Receive(m)
    \/ \E sid \in SupplierIds : BrandReturns(sid)
    \/ \E sid \in SupplierIds : BrandFails(sid)
    \/ \E sid \in SupplierIds, dollar \in BOOLEAN : SupplierReturns(sid, dollar)
    \/ \E sid \in SupplierIds : SupplierFails(sid)
    \/ NextRound
    \/ Decide
    \/ \E data \in DecisionResponses : DecisionReturns(data)
    \/ DecisionFails
    \/ GatherRaises
    \/ ClientDisconnect
    \/ ServerClose

Spec == Init /\ [][Next]_vars

\* every call returns or fails, every channel operation completes or fails,
\* and the event loop runs every task and the handler when they are ready
Fairness ==
    /\ WF_vars(\E m \in FirstMessages : Receive(m))
    /\ \A sid \in SupplierIds :
          /\ WF_vars(BrandReturns(sid) \/ BrandFails(sid))
          /\ WF_vars((\E dollar \in BOOLEAN : SupplierReturns(sid, dollar))
                       \/ SupplierFails(sid))
    /\ WF_vars(NextRound)
    /\ WF_vars(Decide)
    /\ WF_vars((\E data \in DecisionResponses : DecisionReturns(data))
                 \/ DecisionFails)
    /\ WF_vars(GatherRaises)

SpecFair == Init /\ [][Next]_vars /\ Fairness

\* the same handler for every value NEGOTIATION_ROUNDS could be given
InitRounds ==
    /\ SessionInit
    /\ nrounds \in 1..MaxRounds
    /\ call_args = << >>
    /\ call_result = << >>

SpecRounds == InitRounds /\ [][Next]_vars

\* ------------------------------------------------------------------------
\* _peer_summary called on its own, as tests/test_main.py TestPeerSummary does
\* ------------------------------------------------------------------------

\* the registry and a profile whose price_multiplier is exactly 1.0
Profiles ==
    SUPPLIERS \o << [id |-> 4, name |-> "Supplier D", quality_rating |-> 45,
                     base_lead_time_days |-> 30, price_multiplier |-> 100] >>

\* the profiles at the positions of S, in the order of Profiles
ProfileList(S) ==
    [k \in 1..Cardinality(S) |->
        Profiles[CHOOSE i \in S : Cardinality({j \in S : j < i}) = k - 1]]

SupplierLists == {ProfileList(S) : S \in SUBSET DOMAIN Profiles}

\* the offer texts of one supplier: two quotes with different figures, a
\* reply without "$", and the empty text
OfferTexts(sid) ==
    { ReplyText(sid, 1, TRUE), ReplyText(sid, 2, TRUE), ReplyText(sid, 1, FALSE),
      EmptyText }

\* the maps from some registry ids to offer texts
ReplyMaps ==
    UNION { { r \in [D -> UNION {OfferTexts(sid) : sid \in D}] :
                \A sid \in D : r[sid] \in OfferTexts(sid) } :
            D \in SUBSET {SUPPLIERS[i].id : i \in DOMAIN SUPPLIERS} }

SummaryArgs ==
    [exclude : 0..Len(Profiles), suppliers : SupplierLists, replies : ReplyMaps]

InitSummary ==
    /\ SessionInit
    /\ nrounds = NEGOTIATION_ROUNDS
    /\ call_args \in {<< a >> : a \in SummaryArgs}
    /\ call_result = << >>

\* _peer_summary(exclude_supplier_id, suppliers, replies)
CallPeerSummary ==
    /\ call_args # << >>
    /\ call_result = << >>
    /\ call_result' = << _peer_summary(call_args[1].exclude,
                                       call_args[1].suppliers,
                                       call_args[1].replies) >>
    /\ UNCHANGED << sessionVars, nrounds, call_args >>

SpecSummary == InitSummary /\ [][CallPeerSummary]_vars

\* ------------------------------------------------------------------------
\* make_decision lines 303-312 on their own, as tests/test_agents.py
\* TestBrandAgentMakeDecision does with a canned response
\* ------------------------------------------------------------------------

\* items of a comparison array; two of the assessment strings are kept
DecisionItems ==
    [supplier_name : {"Supplier A", "Supplier B", "Supplier Z"},
     cost_assessment : {"low", "high"},
     overall_score : {"7/10", "9/10"}]

\* the arrays of at most MaxItems items
DecisionItemLists ==
    UNION { [1..n -> DecisionItems] : n \in 0..MaxItems }

\* the parsed structured responses
DecisionData ==
    [winner_supplier_id : {1, 2},
     winner_name : {"Supplier B"},
     reasoning : {"best overall"},
     comparison : DecisionItemLists]

InitDecision ==
    /\ SessionInit
    /\ nrounds = NEGOTIATION_ROUNDS
    /\ call_args \in {<< data >> : data \in DecisionData}
    /\ call_result = << >>

\* lines 303-312 of make_decision applied to the parsed response
CallNormalizeDecision ==
    /\ call_args # << >>
    /\ call_result = << >>
    /\ call_result' = << NormalizeDecision(call_args[1]) >>
    /\ UNCHANGED << sessionVars, nrounds, call_args >>

SpecDecision == InitDecision /\ [][CallNormalizeDecision]_vars

\* ------------------------------------------------------------------------
\* get_supplier called on its own, as tests/test_suppliers.py TestGetSupplier
\* does
\* ------------------------------------------------------------------------

InitRegistry ==
    /\ SessionInit
    /\ nrounds = NEGOTIATION_ROUNDS
    /\ call_args \in {<< [id |-> id] >> : id \in (-MaxId)..MaxId}
    /\ call_result = << >>

\* get_supplier(id)
CallGetSupplier ==
    /\ call_args # << >>
    /\ call_result = << >>
    /\ call_result' = << get_supplier(call_args[1].id) >>
    /\ UNCHANGED << sessionVars, nrounds, call_args >>

SpecRegistry == InitRegistry /\ [][CallGetSupplier]_vars

\* ------------------------------------------------------------------------
\* Properties
\* ------------------------------------------------------------------------

Rounds == 1..NEGOTIATION_ROUNDS

Roles == {"brand", "supplier"}

\* positions of the events of one type
EventIdx(type) == {i \in DOMAIN events : events[i].type = type}

\* positions of the message events of one supplier, role and round
MessageIdx(sid, role, rn) ==
    {i \in EventIdx("message") : /\ events[i].supplier_id = sid
                                 /\ events[i].role = role
                                 /\ events[i].round = rn}

TerminalIdx == EventIdx("done") \cup EventIdx("error")

\* something of round k has happened: an event, a call, an Offer write, an
\* append to a supplier-side or to a brand-side thread
RoundActivity(k) ==
    \/ \E i \in DOMAIN events : /\ events[i].type \in {"status", "message"}
                                /\ events[i].round = k
    \/ \E c \in DOMAIN issued : c.round = k
    \/ \E sid \in DOMAIN latest_supplier_replies :
          latest_supplier_replies[sid].round = k
    \/ \E sid \in DOMAIN conversation_history :
          \E i \in DOMAIN conversation_history[sid] :
             conversation_history[sid][i].content.round = k
    \/ /\ k >= 2
       /\ \E sid \in DOMAIN conversation_histories :
             Len(conversation_histories[sid]) > 2 * k - 3

\* every supplier has completed both turns of round k
RoundFinished(k) ==
    \A sid \in SupplierIds :
       MessageIdx(sid, "brand", k) # {} /\ MessageIdx(sid, "supplier", k) # {}

\* C1: join barrier. Nothing of round k+1 (status or message event, call,
\* thread append, Offer write) happens before every supplier's brand and
\* supplier message of round k has been emitted, and in the stream every
\* round-k message precedes every round-(k+1) event; failing runs included.
C1_JoinBarrier ==
    \A k \in 1..(NEGOTIATION_ROUNDS - 1) :
       /\ RoundActivity(k + 1) => RoundFinished(k)
       /\ \A i, j \in DOMAIN events :
             ( /\ events[i].type \in {"status", "message"}
               /\ events[i].round = k + 1
               /\ events[j].type = "message"
               /\ events[j].round = k ) => j < i

C1_Witness ==
    /\ round = NEGOTIATION_ROUNDS
    /\ failedCalls # {}
    /\ \E sid \in SupplierIds : MessageIdx(sid, "supplier", round) # {}

\* C2 (as claimed): there is at most one error event and nothing is sent
\* after it, by the handler or by the tasks still in flight.
C2_ErrorIsLast ==
    /\ Cardinality(EventIdx("error")) <= 1
    /\ \A i \in EventIdx("error") : i = Len(events)

\* C3 (as claimed): a session whose handler has returned has a stream that
\* ends with its only terminal event, however the session ended.
C3_AlwaysTerminal ==
    pc = "returned" =>
       /\ Len(events) > 0
       /\ events[Len(events)].type \in {"done", "error"}
       /\ Cardinality(TerminalIdx) = 1

\* C3 (amended): a session whose handler has returned while the channel was
\* still usable has emitted exactly one terminal event, and that event was
\* the last of the stream when the handler returned.
C3_TerminalIfWritable ==
    /\ [](pc = "returned" /\ chan # "lost" => Cardinality(TerminalIdx) = 1)
    /\ [][ (pc # "returned" /\ pc' = "returned" /\ chan = "open") =>
              /\ Len(events') > 0
              /\ events'[Len(events')].type \in {"done", "error"} ]_vars

C3_Witness ==
    /\ pc = "returned"
    /\ chan # "lost"
    /\ round = 2
    /\ events[Len(events)].type = "error"

\* C4: a stream never holds both a done and an error event, and never two of
\* either kind.
C4_DoneErrorExclusive ==
    /\ Cardinality(EventIdx("done")) <= 1
    /\ Cardinality(EventIdx("error")) <= 1
    /\ EventIdx("done") = {} \/ EventIdx("error") = {}

C4_Witness ==
    /\ pc = "returned"
    /\ EventIdx("error") # {}
    /\ \E sid \in SupplierIds : task[sid] = "resp"

\* the failed calls of generate_rfq, generate_counter and respond
FailedTextCalls == failedCalls \ {DecisionCall}

\* C5: once a generate_rfq, generate_counter or respond call has failed, no
\* later round starts, make_decision is not called, no decision-start status,
\* decision or done event is emitted, there is at most one error event, and
\* a handler that returned with the channel usable has emitted exactly one.
C5_AbortOnFailure ==
    FailedTextCalls # {} =>
       /\ \A f \in FailedTextCalls :
             /\ round = f.round
             /\ \A c \in DOMAIN issued : c.round <= f.round
             /\ \A i \in DOMAIN events : events[i].round <= f.round
       /\ IssuedCount(DecisionCall) = 0
       /\ pc # "decide"
       /\ EventIdx("decision") = {} /\ EventIdx("done") = {}
       /\ \A i \in EventIdx("status") : events[i].content.kind # "decision"
       /\ Cardinality(EventIdx("error")) <= 1
       /\ (pc = "returned" /\ chan # "lost") =>
             Cardinality(EventIdx("error")) = 1

C5_Witness ==
    /\ Cardinality(FailedTextCalls) = 2
    /\ \A f \in FailedTextCalls : f.round = 2
    /\ pc = "returned"
    /\ Cardinality(EventIdx("error")) = 1

\* C6: a stream with a done event holds exactly 2*N*R message events, one
\* per supplier, role and round in 1..R, exactly one decision and one done.
C6_MessageCount ==
    EventIdx("done") # {} =>
       /\ \A sid \in SupplierIds, role \in Roles, k \in Rounds :
             Cardinality(MessageIdx(sid, role, k)) = 1
       /\ \A i \in EventIdx("message") :
             /\ events[i].round \in Rounds
             /\ events[i].supplier_id \in SupplierIds
             /\ events[i].role \in Roles
       /\ Cardinality(EventIdx("message")) =
             2 * Cardinality(SupplierIds) * NEGOTIATION_ROUNDS
       /\ Cardinality(EventIdx("decision")) = 1
       /\ Cardinality(EventIdx("done")) = 1

C6_Witness ==
    /\ EventIdx("done") # {}
    /\ Cardinality(EventIdx("message")) =
          2 * Cardinality(SupplierIds) * NEGOTIATION_ROUNDS

\* C7: there is at most one decision event; the brand and the supplier
\* message of every supplier and round precede it (2*N*R messages), and it
\* precedes every done event.
C7_DecisionAfterRounds ==
    /\ Cardinality(EventIdx("decision")) <= 1
    /\ \A d \in EventIdx("decision") :
          /\ \A sid \in SupplierIds, role \in Roles, k \in Rounds :
                \E i \in MessageIdx(sid, role, k) : i < d
          /\ Cardinality({i \in EventIdx("message") : i < d}) =
                2 * Cardinality(SupplierIds) * NEGOTIATION_ROUNDS
          /\ \A j \in EventIdx("done") : d < j
    /\ EventIdx("done") # {} => EventIdx("decision") # {}

C7_Witness ==
    \E d \in EventIdx("decision") : events[d].decision.winner_supplier_id = 1

\* C8: there is at most one done event; it is the last event of the stream
\* and directly follows the decision event; and a handler that returned
\* after a successful decision call with the channel usable has emitted it.
C8_DoneIsLast ==
    /\ Cardinality(EventIdx("done")) <= 1
    /\ \A j \in EventIdx("done") :
          /\ j = Len(events)
          /\ j > 1
          /\ events[j - 1].type = "decision"
    /\ ( /\ pc = "returned"
         /\ IssuedCount(DecisionCall) = 1
         /\ DecisionCall \notin failedCalls
         /\ chan # "lost" ) => EventIdx("done") # {}

C8_Witness ==
    /\ pc = "returned"
    /\ chan = "closed"
    /\ Len(events) > 0
    /\ events[Len(events)].type = "done"

\* positions of the message events of one supplier and round
RoundMessages(sid, k) == MessageIdx(sid, "brand", k) \cup MessageIdx(sid, "supplier", k)

\* C9: for each supplier there is at most one message per role and round;
\* a supplier message of a round follows the brand message of that round;
\* and all its messages of round k precede all its messages of round k+1,
\* which only appear once round k has both.
C9_PerSupplierOrder ==
    \A sid \in SupplierIds, k \in Rounds :
       /\ \A role \in Roles : Cardinality(MessageIdx(sid, role, k)) <= 1
       /\ \A j \in MessageIdx(sid, "supplier", k) :
             \E i \in MessageIdx(sid, "brand", k) : i < j
       /\ \A i \in RoundMessages(sid, k), j \in RoundMessages(sid, k + 1) : i < j
       /\ RoundMessages(sid, k + 1) # {} =>
             Cardinality(RoundMessages(sid, k)) = 2

C9_Witness ==
    /\ \A k \in Rounds : Cardinality(RoundMessages(1, k)) = 2
    /\ \E i \in MessageIdx(2, "brand", 1) : \E j \in MessageIdx(1, "supplier", 1) :
          i < j
    /\ failedCalls # {}

\* the first messages that are unparseable or of another type
BadFirstMessages == {m \in FirstMessages : m.json # "object" \/ m.type # "start_negotiation"}

\* C10: receiving a first message that cannot be parsed or whose type is not
\* start_negotiation puts exactly one error event on the stream as its only
\* event and ends the handler; no agent exists and no call was issued, and
\* nothing is added afterwards.
C10_BadFirstMessage ==
    /\ [][ \A m \in BadFirstMessages :
              (chan = "open" /\ Receive(m)) =>
                 /\ Len(events') = 1
                 /\ events'[1].type = "error"
                 /\ pc' = "returned"
                 /\ DOMAIN conversation_histories' = {}
                 /\ DOMAIN conversation_history' = {}
                 /\ DOMAIN issued' = {} ]_vars
    /\ [][ (pc = "returned" /\ round = 0) => events' = events /\ agentVars' = agentVars /\ issued' = issued ]_vars

C10_Witness ==
    /\ pc = "returned"
    /\ events = << ErrorEvent(ExpectedStart) >>
    /\ DOMAIN issued = {}

\* the start commands whose quantities are missing, no map to integers, or
\* hold a zero or a negative quantity
BadQuantityMessages ==
    {m \in FirstMessages : /\ m.json = "object"
                           /\ m.type = "start_negotiation"
                           /\ m.quantities # "valid"}

\* C11 (as claimed): receiving a start command whose quantities are missing,
\* not a map to integers, or zero or negative puts exactly one error event on
\* the stream and ends the handler; no agent exists and no call was issued.
C11_QuantitiesValidated ==
    [][ \A m \in BadQuantityMessages :
           (chan = "open" /\ Receive(m)) =>
              /\ Len(events') = 1
              /\ events'[1].type = "error"
              /\ pc' = "returned"
              /\ DOMAIN conversation_histories' = {}
              /\ DOMAIN issued' = {} ]_vars

\* ---- _peer_summary (under SpecSummary) ----

SummaryCalled == call_args # << >> /\ call_result # << >>

\* positions in the suppliers argument of the suppliers that are peers
PeerPositions ==
    {i \in DOMAIN call_args[1].suppliers :
        call_args[1].suppliers[i].id # call_args[1].exclude}

\* the line of the result that belongs to the peer at position i
LineOf(i) ==
    call_result[1].lines[Cardinality({j \in PeerPositions : j <= i})]

\* C12: the result is the fixed header followed by exactly one line per
\* supplier whose id differs from the excluded id, in the order of the
\* suppliers argument, and no line carries the excluded supplier's name.
C12_OneLinePerPeer ==
    SummaryCalled =>
       /\ call_result[1].header = "Other suppliers in this negotiation:"
       /\ Len(call_result[1].lines) = Cardinality(PeerPositions)
       /\ \A i \in PeerPositions :
             LineOf(i).name = call_args[1].suppliers[i].name
       /\ \A l \in DOMAIN call_result[1].lines :
             \A i \in DOMAIN call_args[1].suppliers :
                call_args[1].suppliers[i].id = call_args[1].exclude =>
                   call_result[1].lines[l].name # call_args[1].suppliers[i].name

C12_Witness ==
    /\ SummaryCalled
    /\ Len(call_args[1].suppliers) = Len(Profiles)
    /\ call_args[1].exclude = 2
    /\ Len(call_result[1].lines) = Len(Profiles) - 1

\* r has a text with "$" for supplier sid
QuotedIn(r, sid) == sid \in DOMAIN r /\ r[sid].dollar

\* C13: the result is the same for every Offers map that agrees with the
\* given one, for every peer, on whether the peer's text contains "$";
\* nothing else of any offer text, and nothing of the excluded supplier's
\* text, reaches the result.
C13_OnlyDollarBit ==
    SummaryCalled =>
       \A r \in ReplyMaps :
          (\A i \in PeerPositions :
              QuotedIn(r, call_args[1].suppliers[i].id)
                 = QuotedIn(call_args[1].replies, call_args[1].suppliers[i].id))
          => _peer_summary(call_args[1].exclude, call_args[1].suppliers, r)
                = call_result[1]

C13_Witness ==
    /\ SummaryCalled
    /\ call_args[1].exclude = 2
    /\ Len(call_args[1].suppliers) = 3
    /\ DOMAIN call_args[1].replies = {1, 2, 3}
    /\ call_args[1].replies[1] = ReplyText(1, 2, TRUE)
    /\ call_args[1].replies[2] = ReplyText(2, 1, TRUE)

\* C14: a peer's line says "has quoted" exactly if the Offers map has a text
\* with "$" for that peer, and "has responded" otherwise.
C14_QuotedIffDollar ==
    SummaryCalled =>
       \A i \in PeerPositions :
          /\ LineOf(i).mention \in {"has quoted", "has responded"}
          /\ LineOf(i).mention = "has quoted"
                <=> QuotedIn(call_args[1].replies, call_args[1].suppliers[i].id)

C14_Witness ==
    /\ SummaryCalled
    /\ \E i, j \in PeerPositions :
          /\ LineOf(i).mention = "has quoted"
          /\ LineOf(j).mention = "has responded"
          /\ call_args[1].suppliers[j].id \in DOMAIN call_args[1].replies

\* the Offers map with the empty text for every supplier it does not have
WithEmptyTexts(r, suppliers) ==
    [sid \in DOMAIN r \cup {suppliers[i].id : i \in DOMAIN suppliers} |->
        IF sid \in DOMAIN r THEN r[sid] ELSE EmptyText]

\* C15: for every Offers map, partial or empty, the call returns a summary
\* with a line for every peer, and the summary is the one of the map that
\* has the empty text for every absent supplier.
C15_AbsentIsEmpty ==
    SummaryCalled =>
       /\ Len(call_result[1].lines) = Cardinality(PeerPositions)
       /\ call_result[1] =
             _peer_summary(call_args[1].exclude, call_args[1].suppliers,
                           WithEmptyTexts(call_args[1].replies,
                                          call_args[1].suppliers))
       /\ \A i \in PeerPositions :
             call_args[1].suppliers[i].id \notin DOMAIN call_args[1].replies =>
                LineOf(i).mention = "has responded"

C15_Witness ==
    /\ SummaryCalled
    /\ DOMAIN call_args[1].replies = {}
    /\ Len(call_result[1].lines) = 3

\* C16: a peer's posture is "competitive" exactly if its price_multiplier is
\* at most 1.0, "higher-priced" otherwise, whatever the Offers map holds.
C16_PostureByFactor ==
    SummaryCalled =>
       /\ \A i \in PeerPositions :
             /\ LineOf(i).posture \in {"competitive", "higher-priced"}
             /\ LineOf(i).posture = "competitive"
                   <=> call_args[1].suppliers[i].price_multiplier <= 100
       /\ \A r \in ReplyMaps :
             LET other == _peer_summary(call_args[1].exclude,
                                        call_args[1].suppliers, r)
             IN  \A l \in DOMAIN call_result[1].lines :
                    other.lines[l].posture = call_result[1].lines[l].posture

C16_Witness ==
    /\ SummaryCalled
    /\ \E i \in PeerPositions :
          /\ call_args[1].suppliers[i].price_multiplier = 100
          /\ LineOf(i).posture = "competitive"

\* ---- disclosure (under SpecRounds) ----

\* the all_quotes_summary argument of the generate_counter call that is
\* waiting for its text for supplier sid: << >> for None
PassedSummary(sid) ==
    conversation_histories[sid][Len(conversation_histories[sid])].content.hint

\* generate_counter for supplier sid has been called in this round and its
\* instruction turn is still the last turn of the thread
InCounterCall(sid) ==
    /\ round >= 2
    /\ task[sid] = "gen"

\* C17: the generate_counter call of round k carries a summary exactly if
\* k > 2, whatever the number of rounds: never with two rounds, in every
\* round from the third on with more than three.
C17_SummaryIffAfterRound2 ==
    \A sid \in SupplierIds :
       InCounterCall(sid) =>
          /\ PassedSummary(sid) # << >> <=> round > 2
          /\ nrounds = 2 => PassedSummary(sid) = << >>
          /\ (nrounds > 3 /\ round >= 3) => PassedSummary(sid) # << >>

C17_Witness ==
    /\ nrounds = MaxRounds
    /\ round = MaxRounds - 1
    /\ \A sid \in SupplierIds :
          InCounterCall(sid) /\ PassedSummary(sid) # << >>

\* C18 (as claimed): a summary is built, and passed to generate_counter,
\* only in the final round of a session with more than two rounds.
C18_FinalRoundOnly ==
    \A sid \in SupplierIds :
       /\ sid \in DOMAIN peer_summary => (round = nrounds /\ nrounds > 2)
       /\ (InCounterCall(sid) /\ PassedSummary(sid) # << >>)
             => (round = nrounds /\ nrounds > 2)

\* C18 (amended): every counter round, the second included, builds the
\* summary of each supplier's peers; the one passed to generate_counter is
\* that summary, it is passed only in rounds after the second, and with
\* NEGOTIATION_ROUNDS rounds the only such round is the final one.
C18_BuiltEachCounterRound ==
    /\ round < 2 => DOMAIN peer_summary = {}
    /\ round >= 2 => DOMAIN peer_summary = SupplierIds
    /\ \A sid \in SupplierIds :
          InCounterCall(sid) =>
             /\ PassedSummary(sid) \in {<< >>, << peer_summary[sid] >>}
             /\ PassedSummary(sid) # << >> => round > 2
             /\ (PassedSummary(sid) # << >> /\ nrounds = NEGOTIATION_ROUNDS)
                   => round = nrounds

C18_Witness ==
    /\ nrounds = MaxRounds
    /\ round = 2
    /\ \A sid \in SupplierIds :
          /\ InCounterCall(sid)
          /\ sid \in DOMAIN peer_summary
          /\ PassedSummary(sid) = << >>

\* ---- the decision (under Spec) ----

\* C19 (as claimed): when the stream holds done, the keys of the decision's
\* comparison are exactly the display names of the session's suppliers.
C19_ComparisonKeys ==
    EventIdx("done") # {} =>
       \A i \in EventIdx("decision") :
          DOMAIN events[i].decision.comparison
             = {SupplierName(sid) : sid \in SupplierIds}

\* C20 (as claimed): a decision on the stream names a winner that is one of
\* the session's suppliers; any other id ends the session with an error and
\* without decision or done.
C20_WinnerInSession ==
    \A i \in EventIdx("decision") :
       events[i].decision.winner_supplier_id \in SupplierIds

\* two items of the comparison array carry the same supplier_name
HasDuplicateName(comparison_list) ==
    \E i, j \in DOMAIN comparison_list :
       i # j /\ comparison_list[i].supplier_name = comparison_list[j].supplier_name

\* C21 (as claimed): when the decision call returns a response whose
\* comparison array names a supplier twice, the handler ends with an error
\* event and the stream holds neither a decision nor a done event.
C21_DuplicateRejected ==
    [][ \A data \in DecisionResponses :
           (HasDuplicateName(data.comparison) /\ chan = "open"
              /\ DecisionReturns(data)) =>
              /\ events'[Len(events')].type = "error"
              /\ \A i \in DOMAIN events' :
                    events'[i].type \notin {"decision", "done"} ]_vars

\* ---- decision normalisation (under SpecDecision) ----

DecisionCalled == call_args # << >> /\ call_result # << >>

\* the item a key and its entry of the comparison map stand for
ItemOf(name, entry) ==
    [k \in DOMAIN entry \cup {"supplier_name"} |->
        IF k = "supplier_name" THEN name ELSE entry[k]]

\* C22: for a response whose comparison array has pairwise distinct names,
\* the comparison map has exactly one key per item, the item's name; its
\* value is the item without supplier_name and with every other field as it
\* was, so the map gives back the items of the array; winner id, winner name
\* and reasoning are copied.
C22_Normalization ==
    (DecisionCalled /\ ~HasDuplicateName(call_args[1].comparison)) =>
       LET list == call_args[1].comparison
           map  == call_result[1].comparison
       IN  /\ Cardinality(DOMAIN map) = Len(list)
           /\ \A i \in DOMAIN list :
                 /\ list[i].supplier_name \in DOMAIN map
                 /\ DOMAIN map[list[i].supplier_name]
                       = DOMAIN list[i] \ {"supplier_name"}
                 /\ \A k \in DOMAIN list[i] \ {"supplier_name"} :
                       map[list[i].supplier_name][k] = list[i][k]
           /\ {ItemOf(n, map[n]) : n \in DOMAIN map}
                 = {list[i] : i \in DOMAIN list}
           /\ call_result[1].winner_supplier_id = call_args[1].winner_supplier_id
           /\ call_result[1].winner_name = call_args[1].winner_name
           /\ call_result[1].reasoning = call_args[1].reasoning

C22_Witness ==
    /\ DecisionCalled
    /\ Len(call_args[1].comparison) = MaxItems
    /\ ~HasDuplicateName(call_args[1].comparison)
    /\ Cardinality(DOMAIN call_result[1].comparison) = MaxItems

\* ---- threads and offers (under Spec) ----

\* generate_counter for supplier sid returns or raises in this step
CounterCallEnds(sid) ==
    /\ round >= 2
    /\ BrandReturns(sid) \/ BrandFails(sid)

\* C23: once the agents exist the brand has exactly one thread per session
\* supplier id, and a generate_counter call for one supplier, whether it
\* returns or raises, leaves the thread of every other supplier as it was.
C23_ThreadIsolation ==
    [][ /\ conversation_histories' # << >> =>
              DOMAIN conversation_histories' = SupplierIds
        /\ \A sid \in SupplierIds :
              CounterCallEnds(sid) =>
                 \A c \in SupplierIds \ {sid} :
                    conversation_histories'[c] = conversation_histories[c] ]_vars

C23_Witness ==
    /\ round = 2
    /\ task[1] = "resp"
    /\ task[2] = "gen"
    /\ conversation_histories[1][Len(conversation_histories[1])]
          = Turn("user", CounterText(1, 2))
    /\ conversation_histories[2][Len(conversation_histories[2])].content.kind
          = "instruction"

IsPrefix(a, b) == Len(a) <= Len(b) /\ SubSeq(b, 1, Len(a)) = a

\* C24 (as claimed): in every step every thread, the brand's and the
\* suppliers', keeps what it held as a prefix of what it holds afterwards.
C24_AppendOnly ==
    [][ /\ \A sid \in DOMAIN conversation_histories :
              IsPrefix(conversation_histories[sid], conversation_histories'[sid])
        /\ \A sid \in DOMAIN conversation_history :
              IsPrefix(conversation_history[sid], conversation_history'[sid]) ]_vars

\* a step of the unit of work of supplier sid
UnitStep(sid) ==
    \/ BrandReturns(sid)
    \/ BrandFails(sid)
    \/ \E dollar \in BOOLEAN : SupplierReturns(sid, dollar)
    \/ SupplierFails(sid)

\* C25: a step of the unit of work of one supplier changes no thread and no
\* recorded reply of another supplier, and a new unit of work starts for a
\* supplier only when that supplier has no unit in flight.
C25_ExclusiveOwnership ==
    [][ /\ \A sid \in SupplierIds :
              UnitStep(sid) =>
                 \A c \in SupplierIds \ {sid} :
                    /\ conversation_histories'[c] = conversation_histories[c]
                    /\ conversation_history'[c] = conversation_history[c]
                    /\ c \in DOMAIN latest_supplier_replies'
                          <=> c \in DOMAIN latest_supplier_replies
                    /\ c \in DOMAIN latest_supplier_replies =>
                          latest_supplier_replies'[c] = latest_supplier_replies[c]
        /\ \A sid \in SupplierIds :
              (task'[sid] = "gen" /\ task[sid] # "gen") =>
                 \A c \in SupplierIds : task[c] \in {"idle", "done"} ]_vars

C25_Witness ==
    /\ round = 2
    /\ task[1] = "done"
    /\ task[2] = "resp"
    /\ latest_supplier_replies[1].round = 2
    /\ latest_supplier_replies[2].round = 1

\* ---- the channel (under Spec) ----

\* C26 (as claimed): after a send has failed on a channel that is not open,
\* nothing in the session attempts another send.
C26_NoSendAfterFailure == failedSends <= 1

\* ---- the supplier's thread (under Spec) ----

\* the calls of respond that have returned for supplier sid
Responded(sid) == (Len(conversation_history[sid]) - 1) \div 2

\* C27: after k calls of respond have returned, the supplier's thread is the
\* system turn followed, round by round, by the brand's message as a user
\* turn and the reply as an assistant turn, 1 + 2k turns in all (one more
\* while a call is outstanding or has raised), and what each call returned,
\* the text of the supplier's message event and the recorded reply, is that
\* assistant turn.
C27_SupplierThread ==
    \A sid \in DOMAIN conversation_history :
       LET h == conversation_history[sid]
           k == Responded(sid)
       IN  /\ h[1] = Turn("system", SupplierSystemPrompt(sid))
           /\ Len(h) \in {1 + 2 * k, 2 + 2 * k}
           /\ Len(h) = 2 + 2 * k => task[sid] \in {"resp", "failed"}
           /\ task[sid] = "done" => k = round
           /\ \A i \in 1..k :
                 /\ h[2 * i] = Turn("user", BrandText(sid, i))
                 /\ h[2 * i + 1].role = "assistant"
                 /\ h[2 * i + 1].content \in
                       {ReplyText(sid, i, dollar) : dollar \in BOOLEAN}
                 /\ \A e \in MessageIdx(sid, "supplier", i) :
                       events[e].content = h[2 * i + 1].content
           /\ k >= 1 => latest_supplier_replies[sid] = h[2 * k + 1].content

C27_Witness ==
    /\ 1 \in DOMAIN conversation_history
    /\ task[1] = "done"
    /\ round = NEGOTIATION_ROUNDS
    /\ Len(conversation_history[1]) = 1 + 2 * NEGOTIATION_ROUNDS

\* ---- offers (under Spec) ----

\* main.py line 133: the argument of make_decision
final_offers == latest_supplier_replies

\* C28: when a supplier's turn of round k is complete its recorded reply is
\* the reply of round k; a recorded reply is never removed and is replaced
\* only by a reply of the same supplier from a later round; and the decision
\* call is made with the replies of the last round of every supplier.
C28_OfferTracking ==
    [][ /\ \A sid \in SupplierIds :
              task'[sid] = "done" =>
                 /\ sid \in DOMAIN latest_supplier_replies'
                 /\ latest_supplier_replies'[sid] \in
                       {ReplyText(sid, round', dollar) : dollar \in BOOLEAN}
        /\ \A sid \in DOMAIN latest_supplier_replies :
              /\ sid \in DOMAIN latest_supplier_replies'
              /\ latest_supplier_replies'[sid].sid = sid
              /\ \/ latest_supplier_replies'[sid] = latest_supplier_replies[sid]
                 \/ latest_supplier_replies'[sid].round
                       > latest_supplier_replies[sid].round
        /\ (pc # "decide" /\ pc' = "decide") =>
              /\ DOMAIN final_offers = SupplierIds
              /\ \A sid \in SupplierIds :
                    final_offers[sid] \in
                       {ReplyText(sid, nrounds, dollar) : dollar \in BOOLEAN} ]_vars

C28_Witness ==
    /\ pc = "decide"
    /\ \A sid \in SupplierIds :
          latest_supplier_replies[sid].round = NEGOTIATION_ROUNDS

\* ---- failures (under Spec) ----

\* C29: no call is issued more than once for a supplier, a round and a
\* role, nor the decision call more than once; once a call has failed it is
\* not issued again, no later round starts, and neither the decision call
\* nor a decision or done event follows.
C29_NoRetries ==
    [][ /\ \A c \in DOMAIN issued' : issued'[c] <= 1
        /\ failedCalls # {} =>
              /\ round' = round
              /\ \A c \in failedCalls : issued'[c] = issued[c]
              /\ IssuedCount(DecisionCall)' = IssuedCount(DecisionCall)
              /\ pc' \in {pc, "returned"}
              /\ \A i \in DOMAIN events' :
                    events'[i].type \in {"decision", "done"} =>
                       i \in DOMAIN events ]_vars

C29_Witness ==
    /\ Cardinality(failedCalls) = 1
    /\ pc = "returned"
    /\ round = 2
    /\ \E sid \in SupplierIds : task[sid] = "done"

\* a send of the handler itself fails in this step
HandlerSendFailsNow ==
    /\ chan # "open"
    /\ pc \in {"gather", "decide"}
    /\ pc' = "returned"
    /\ gatherExc = NoExc
    /\ failedCalls' = failedCalls

RegistryCalled == call_args # << >> /\ call_result # << >>

\* C31: for an id of the registry the call returns the registry's profile
\* with that id; for every other id, zero and negative ids included, it
\* raises ValueError; it never returns a profile with another id.
C31_GetSupplier ==
    RegistryCalled =>
       LET id == call_args[1].id
       IN  /\ id \in {1, 2, 3} =>
                /\ call_result[1].id = id
                /\ \E i \in DOMAIN SUPPLIERS : call_result[1] = SUPPLIERS[i]
           /\ id \notin {1, 2, 3} => call_result[1] = NoSupplier
           /\ call_result[1] # NoSupplier => call_result[1].id = id

C31_Witness ==
    /\ RegistryCalled
    /\ call_args[1].id = -1
    /\ call_result[1] = NoSupplier

\* ---- status markers (under Spec) ----

\* the events of a round of a successful run: the marker, then the messages
RoundBlock == 2 * NumSuppliers + 1

\* position of the marker of round k in the stream of a successful run
RoundStart(k) == 2 + (k - 1) * RoundBlock

\* C32: every message event of round k comes after the marker of round k
\* and before any marker of round k + 1 and before the decision marker; the
\* stream of a run that ends with done is the session marker, then for each
\* round its marker followed by its 2N messages, then the decision marker,
\* the decision and done, with nrounds + 2 status events in all.
C32_StatusOrder ==
    /\ \A i \in EventIdx("message") :
          /\ \E j \in 1..(i - 1) : events[j] = StatusEvent("round", events[i].round)
          /\ \A j \in 1..(i - 1) :
                /\ events[j] # StatusEvent("round", events[i].round + 1)
                /\ events[j] # StatusEvent("decision", 0)
    /\ EventIdx("done") # {} =>
          /\ Len(events) = RoundStart(nrounds + 1) + 2
          /\ events[1] = StatusEvent("init", 0)
          /\ \A k \in 1..nrounds :
                /\ events[RoundStart(k)] = StatusEvent("round", k)
                /\ \A i \in (RoundStart(k) + 1)..(RoundStart(k + 1) - 1) :
                      /\ events[i].type = "message"
                      /\ events[i].round = k
          /\ events[RoundStart(nrounds + 1)] = StatusEvent("decision", 0)
          /\ events[RoundStart(nrounds + 1) + 1].type = "decision"
          /\ events[RoundStart(nrounds + 1) + 2] = DoneEvent
          /\ Cardinality(EventIdx("status")) = nrounds + 2

C32_Witness ==
    /\ EventIdx("done") # {}
    /\ Cardinality(EventIdx("status")) = NEGOTIATION_ROUNDS + 2
    /\ Cardinality(EventIdx("message")) = 2 * NumSuppliers * NEGOTIATION_ROUNDS

\* ---- messages and threads (under Spec) ----

\* the message events of supplier sid, in the order of the stream
MessagesOf(sid) ==
    LET Mine(e) == e.type = "message" /\ e.supplier_id = sid
    IN  SelectSeq(events, Mine)

\* the speaker of a thread turn as a role of a message event
RoleOfTurn(turn) == IF turn.role = "user" THEN "brand" ELSE "supplier"

\* C33: when every task of a round has returned, the message events of each
\* supplier carry, in order, the contents of the turns after the system turn
\* of that supplier's thread, brand for a user turn and supplier for an
\* assistant turn; in every state the number of a supplier's message events
\* and the number of those turns differ by at most one.
C33_MessagesMirrorThread ==
    \A sid \in DOMAIN conversation_history :
       LET ev == MessagesOf(sid)
           h  == conversation_history[sid]
       IN  /\ Len(ev) - (Len(h) - 1) \in {-1, 0, 1}
           /\ RoundComplete =>
                 /\ Len(ev) = Len(h) - 1
                 /\ \A i \in DOMAIN ev :
                       /\ ev[i].content = h[i + 1].content
                       /\ ev[i].role = RoleOfTurn(h[i + 1])

C33_Witness ==
    /\ RoundComplete
    /\ round = NEGOTIATION_ROUNDS
    /\ \A sid \in SupplierIds : Len(MessagesOf(sid)) = 2 * NEGOTIATION_ROUNDS

\* ---- error texts (under Spec) ----

\* the texts of the RuntimeErrors the agents raise for a failed call
CallFailureTexts ==
    {"Brand RFQ generation failed", "Brand counter-proposal generation failed",
     "LLM call failed"}

\* C34 (as claimed): the error event of a failed generate_rfq,
\* generate_counter or respond call names the supplier whose call failed.
C34_ErrorNamesSupplier ==
    \A i \in EventIdx("error") :
       events[i].content.kind \in CallFailureTexts =>
          events[i].content.sid \in SupplierIds

\* ---- the summary as private context (under Spec) ----

\* C35: a summary is found only in the instruction turn of the brand's
\* thread of the supplier it was built for, as the last turn, while the
\* generate_counter call is outstanding or after it has raised; once the
\* call has returned no turn of any thread holds one; no turn of a
\* supplier's own thread and no event ever holds one; and a summary holds,
\* per peer, the name, the two ratings, the mention and the posture only.
C35_SummaryPrivate ==
    /\ \A i \in DOMAIN events : events[i].content.hint = << >>
    /\ \A sid \in DOMAIN conversation_history :
          \A i \in DOMAIN conversation_history[sid] :
             conversation_history[sid][i].content.hint = << >>
    /\ \A sid \in DOMAIN conversation_histories :
          \A i \in DOMAIN conversation_histories[sid] :
             LET text == conversation_histories[sid][i].content
             IN  text.hint # << >> =>
                    /\ i = Len(conversation_histories[sid])
                    /\ text.kind = "instruction"
                    /\ task[sid] \in {"gen", "failed"}
                    /\ text.hint = << peer_summary[sid] >>
                    /\ \A l \in DOMAIN text.hint[1].lines :
                          DOMAIN text.hint[1].lines[l]
                             = {"name", "quality", "lead", "mention", "posture"}

C35_Witness ==
    /\ round = NEGOTIATION_ROUNDS
    /\ task[1] = "resp"
    /\ task[2] = "gen"
    /\ PassedSummary(2) # << >>
    /\ \A i \in DOMAIN conversation_histories[1] :
          conversation_histories[1][i].content.hint = << >>

\* ---- the summary and the schedule (under Spec) ----

\* the replies of the round before the current one, read off the threads
PreviousOffers ==
    [c \in SupplierIds |-> conversation_history[c][2 * (round - 1) + 1].content]

\* C36: in a counter round the summary built for a supplier is the summary
\* of the replies of the round before, whatever the tasks of the current
\* round have done since, and the summary passed to generate_counter in a
\* round after the second is that one.
C36_SummaryFromPreviousRound ==
    round >= 2 =>
       \A sid \in SupplierIds :
          /\ peer_summary[sid]
                = _peer_summary(sid, SessionSuppliers, PreviousOffers)
          /\ (InCounterCall(sid) /\ round > 2) =>
                PassedSummary(sid)
                   = << _peer_summary(sid, SessionSuppliers, PreviousOffers) >>

C36_Witness ==
    /\ round = NEGOTIATION_ROUNDS
    /\ task[1] = "gen"
    /\ task[2] = "done"
    /\ ~HasDollar(PreviousOffers[2])
    /\ HasDollar(latest_supplier_replies[2])
    /\ PassedSummary(1)[1].lines[1].mention = "has responded"

\* ---- termination (under SpecFair) ----

\* the text-generation calls issued so far
RECURSIVE SumIssued(_)
SumIssued(calls) ==
    IF calls = {} THEN 0
    ELSE LET c == CHOOSE x \in calls : TRUE
         IN  issued[c] + SumIssued(calls \ {c})

TotalIssued == SumIssued(DOMAIN issued)

\* C37 (as claimed): no session issues more than N * (2R - 1) + 1 calls.
C37_CallBoundClaimed ==
    TotalIssued <= NumSuppliers * (2 * nrounds - 1) + 1

\* C37 (amended): the handler eventually returns, and a session issues at
\* most 2 * N * R + 1 calls: two per supplier and round, and the decision.
C37_Termination ==
    /\ <>(pc = "returned")
    /\ [](TotalIssued <= 2 * NumSuppliers * nrounds + 1)

C37_Witness ==
    /\ pc = "returned"
    /\ EventIdx("done") # {}
    /\ TotalIssued = 2 * NumSuppliers * NEGOTIATION_ROUNDS + 1

\* ---- threads after a failed call (under Spec) ----

\* the last n turns of a thread
LastTurns(h, n) == SubSeq(h, Len(h) - n + 1, Len(h))

\* C38: when a generate_counter call fails, the brand's thread of that
\* supplier still ends with the supplier's previous reply and the
\* instruction turn, the summary in it included; when a respond call fails,
\* the supplier's thread still ends with the brand's message as a user
\* turn; the task has raised a RuntimeError, which is what gather hands to
\* the handler if it is the first, and no other thread has changed.
C38_NoRollback ==
    [][ \A sid \in SupplierIds :
          /\ (round >= 2 /\ BrandFails(sid)) =>
                /\ LastTurns(conversation_histories'[sid], 2)
                      = << Turn("assistant", PreviousOffers[sid]),
                           Turn("user",
                                Instruction(sid, IF round > 2
                                                 THEN << peer_summary[sid] >>
                                                 ELSE << >>)) >>
                /\ conversation_histories' = conversation_histories
                /\ conversation_history' = conversation_history
                /\ task'[sid] = "failed"
                /\ (pc = "gather" /\ gatherExc = NoExc) =>
                      gatherExc'.cls = "RuntimeError"
          /\ SupplierFails(sid) =>
                /\ LastTurns(conversation_history'[sid], 1)
                      = << Turn("user", BrandText(sid, round)) >>
                /\ conversation_history' = conversation_history
                /\ conversation_histories' = conversation_histories
                /\ task'[sid] = "failed"
                /\ (pc = "gather" /\ gatherExc = NoExc) =>
                      gatherExc'.cls = "RuntimeError" ]_vars

C38_Witness ==
    /\ round = NEGOTIATION_ROUNDS
    /\ task[1] = "failed"
    /\ Call("generate_counter", 1, NEGOTIATION_ROUNDS) \in failedCalls
    /\ task[2] = "failed"
    /\ Call("respond", 2, NEGOTIATION_ROUNDS) \in failedCalls
    /\ PassedSummary(1) # << >>

\* ---- the brand's threads (under Spec) ----

\* C39: generate_rfq and make_decision leave every thread of the brand as
\* it is; a generate_counter call that has returned has added two turns to
\* its thread, the supplier's previous reply and the counter-message; so a
\* thread has 1 + 2 (k - 1) turns once the counter of round k is in it, and
\* 1 + 2 (R - 1) after a run that ends with done.
C39_BrandThreadShape ==
    [][ /\ (round = 1 /\ \E sid \in SupplierIds : BrandReturns(sid) \/ BrandFails(sid))
              => conversation_histories' = conversation_histories
        /\ (pc = "decide" \/ pc' = "decide")
              => conversation_histories' = conversation_histories
        /\ \A sid \in DOMAIN conversation_histories' :
              LET h == conversation_histories'[sid]
              IN  /\ round' = 1 => h = << Turn("system", BrandSystemPrompt) >>
                  /\ (round' >= 2 /\ task'[sid] \in {"resp", "done"}) =>
                        /\ Len(h) = 1 + 2 * (round' - 1)
                        /\ LastTurns(h, 2)
                              = << Turn("assistant",
                                        conversation_history'[sid]
                                           [2 * (round' - 1) + 1].content),
                                   Turn("user", CounterText(sid, round')) >>
                  /\ (\E i \in DOMAIN events' : events'[i].type = "done") =>
                        Len(h) = 1 + 2 * (nrounds - 1) ]_vars

C39_Witness ==
    /\ EventIdx("done") # {}
    /\ \A sid \in SupplierIds :
          Len(conversation_histories[sid]) = 1 + 2 * (NEGOTIATION_ROUNDS - 1)

====
